---- MODULE Spec2Model ----
(***************************************************************************)
(* Model of llm-news: the article classification pipeline                  *)
(* (services/llm_service.py) and the indexing / streaming retrieval        *)
(* engine (services/rag_service.py).                                       *)
(*                                                                         *)
(* Five specifications share the variables of this module:                 *)
(*   SpecArticle  one run of process_article                               *)
(*   SpecUrl      one call of validate_article_url                         *)
(*   SpecTrunc    the loop of truncate_to_fit, one iteration per step      *)
(*   SpecRag      archive, vector index, indexing and query retrieval      *)
(*   SpecStream   the worker thread and the consumer generator of a query  *)
(***************************************************************************)
EXTENDS Integers, Sequences, FiniteSets, TLC

VARIABLES
    \* ---- process_article ----
    article,        \* the caller's article dict
    retries_left,   \* local of process_article
    full_content,   \* local of process_article
    safe_content,   \* local of process_article
    parsed_result,  \* validated ReportOutput of the current attempt
    pa_pc,          \* position in process_article
    llm_calls,      \* number of llm.ainvoke calls of this run
    fetch_calls,    \* number of fetch_article_content calls of this run
    report,         \* the dict returned by process_article
    exc,            \* the exception `e` caught on line 163, "none" if none
    \* ---- truncate_to_fit, iteration by iteration ----
    t_orig,         \* the argument of truncate_to_fit
    t_content,      \* the local `content`
    t_prompt,       \* len(encoding.encode(system_prompt))
    t_budget,       \* the input token budget
    t_total,        \* the local `total_tokens`
    t_pc,           \* "estimate" | "test" | "returned"
    \* ---- archive and vector index ----
    archive,        \* the latest JSON report file
    vectorstore,    \* the module-global vectorstore
    idx_log,        \* the last operation on the archive or the index
    query,          \* what the last stream_query_articles call computed
    \* ---- streaming ----
    queue,          \* handler.queue
    done,           \* handler.done
    w_pc,           \* position of the run_chain thread
    c_pc,           \* position of the consumer generator
    to_produce,     \* tokens the model has yet to emit
    produced,       \* tokens pushed so far, in push order
    yielded,        \* tokens yielded so far, in yield order
    \* ---- validate_article_url ----
    u_url,          \* the url argument
    u_text,         \* result.content of the model call
    u_pc,           \* "call" | "answered" | "returned"
    u_result        \* the returned pair

articleVars == <<article, retries_left, full_content, safe_content,
                 parsed_result, pa_pc, llm_calls, fetch_calls, report, exc>>
truncVars   == <<t_orig, t_content, t_prompt, t_budget, t_total, t_pc>>
ragVars     == <<archive, vectorstore, idx_log, query>>
streamVars  == <<queue, done, w_pc, c_pc, to_produce, produced, yielded>>
urlVars     == <<u_url, u_text, u_pc, u_result>>
vars        == <<articleVars, truncVars, ragVars, streamVars, urlVars>>

(***************************************************************************)
(* Bounds                                                                  *)
(***************************************************************************)
MaxRetries == 2          \* largest retries_left an article starts with
MaxCalls == 5            \* cap on llm.ainvoke calls of one run
MaxTextLen == 5          \* longest content given to the truncation loop
MaxBudget == 9           \* largest token budget given to the truncation loop
MaxPrompt == 3           \* largest prompt token count given to the loop
MaxEntries == 2          \* most reports in the archive file
MaxChunks == 3           \* most chunks in the vector index
MaxTopK == 2             \* largest top_k of a query
MaxTokens == 3           \* most tokens the model streams for one answer
SmallLen == 40           \* a content that fits the budget
BigLen == 1000000        \* a content that does not fit the budget
CharsPerToken == 4       \* characters per token of the tokenizer estimate
PromptTokens == 700      \* tokens of system_prompt (depends on categories.json)

(***************************************************************************)
(* Program constants                                                       *)
(***************************************************************************)
MAX_TOTAL_TOKENS == 200000
RESERVED_OUTPUT_TOKENS == 5000
MAX_INPUT_TOKENS == MAX_TOTAL_TOKENS - RESERVED_OUTPUT_TOKENS
PrefixChars == 17        \* len("Article Content:\n")
chunk_size == 500
chunk_overlap == 100
CATEGORIES_INDEX == {"AI", "Cloud"}

(***************************************************************************)
(* Contents.  A content is the value of article["content"] or the second   *)
(* component of fetch_article_content's result: Python None, or a string   *)
(* of `len` characters; `special` says that the string holds the text of a *)
(* tokenizer special token, which encoding.encode refuses.                 *)
(***************************************************************************)
NoneContent == [kind |-> "none", origin |-> "none", len |-> 0, special |-> FALSE]

Str(origin, n, sp) == [kind |-> "str", origin |-> origin, len |-> n, special |-> sp]

Truthy(c) == c.kind = "str" /\ c.len > 0

\* encoding.encode(s) raises on None ("..." + None) and on special-token text
Encodable(c) == c.kind = "str" /\ ~c.special

\* len(encoding.encode(s)) for a string of n characters
TokenCount(n) == (n + CharsPerToken - 1) \div CharsPerToken

\* total_tokens of truncate_to_fit
total_tokens(prompt, n) == prompt + TokenCount(PrefixChars + n)

\* the 0.9 of content[: int(len(content) * 0.9)]
ShrinkRoundsUp(n) == (n * 9 + 9) \div 10
ShrinkLen(n) == (n * 9) \div 10

\* the exit test of the loop
WithinBudget(total, budget) == total <= budget

Fits(prompt, n, budget) == WithinBudget(total_tokens(prompt, n), budget)

RECURSIVE TruncLen(_, _, _)
TruncLen(prompt, n, budget) ==
    IF Fits(prompt, n, budget) THEN n
    ELSE TruncLen(prompt, ShrinkLen(n), budget)

\* truncate_to_fit(content) with the module's constants
truncate_to_fit(c) == [c EXCEPT !.len = TruncLen(PromptTokens, c.len, MAX_INPUT_TOKENS)]

(***************************************************************************)
(* Model output.  A response text is an optional lead (whitespace or       *)
(* prose), an optional ```json fence and a body.                           *)
(***************************************************************************)
Statuses == {"Accepted", "Rejected", "Error", "Maybe"}
MissingLists == {<<>>, <<"Quantum">>}

\* what the model may put in the response section
Responses ==
    {[categories |-> <<>>, insights |-> <<>>, summary |-> ""],
     [categories |-> <<"AI">>, insights |-> <<"i1">>, summary |-> "s1"],
     [categories |-> <<"AI", "Quantum">>, insights |-> <<>>, summary |-> ""],
     [categories |-> <<>>, insights |-> <<"i1">>, summary |-> ""],
     [categories |-> <<>>, insights |-> <<>>, summary |-> "s1"]}

ReportBodies ==
    {[syntax |-> sx, shape |-> "report", status |-> st, retry |-> rt,
      categories |-> r.categories, insights |-> r.insights,
      summary |-> r.summary, missing_categories |-> m] :
        sx \in {"valid", "repairable"}, st \in Statuses, rt \in BOOLEAN,
        r \in Responses, m \in MissingLists}

EmptyBody(syntax, shape) ==
    [syntax |-> syntax, shape |-> shape, status |-> "", retry |-> FALSE,
     categories |-> <<>>, insights |-> <<>>, summary |-> "",
     missing_categories |-> <<>>]

\* no JSON at all; a JSON value that is not an object; an object lacking a
\* key; an object with a field of the wrong type
BadBodies ==
    {EmptyBody("none", "none"), EmptyBody("valid", "not_object"),
     EmptyBody("valid", "missing_key"), EmptyBody("repairable", "wrong_type")}

Bodies == ReportBodies \cup BadBodies

Texts == [lead : {"ws", "prose"}, fenced : BOOLEAN, body : Bodies]

\* re.search(```json ... ```) -> group(1), else text.strip()
extract_json_block(text) ==
    IF text.fenced THEN [lead |-> "", body |-> text.body]
    ELSE [lead |-> IF text.lead = "ws" THEN "" ELSE text.lead, body |-> text.body]

\* repair_json: the first JSON value of the candidate with its syntax
\* defects fixed; the empty string when the candidate holds no JSON
repair_json(cand) ==
    IF cand.body.syntax = "none" THEN EmptyBody("empty", "none")
    ELSE [cand.body EXCEPT !.syntax = "valid"]

\* json.loads raises JSONDecodeError on text that is not valid JSON
LoadsOk(repaired) == repaired.syntax = "valid"

\* ReportOutput.model_validate: presence and type of every field; status is
\* declared `str`
Validates(parsed) == parsed.shape = "report"

model_dump_logging(p) ==
    [status |-> p.status, reason |-> "model", retry |-> p.retry,
     missing_categories |-> p.missing_categories]

model_dump_response(p) ==
    [categories |-> p.categories, insights |-> p.insights, summary |-> p.summary]

NoReport == [kind |-> "none"]

\* the dict returned on lines 152-161
FinalReportOfSafeContent(p, art, content) ==
    [kind |-> "report",
     logging |-> model_dump_logging(p),
     response |-> model_dump_response(p),
     metadata |-> [source |-> art.url, title |-> art.title,
                   raw_content |-> truncate_to_fit(content),
                   missing_categories |-> p.missing_categories]]
FinalReport(p, art, content) ==
    [kind |-> "report",
     logging |-> model_dump_logging(p),
     response |-> model_dump_response(p),
     metadata |-> [source |-> art.url, title |-> art.title,
                   raw_content |-> content,
                   missing_categories |-> p.missing_categories]]

\* the dict returned by the except clause, lines 165-179
ErrorReport(cause, art, content) ==
    [kind |-> "report",
     logging |-> [status |-> "Error", reason |-> cause, retry |-> FALSE,
                  missing_categories |-> <<>>],
     response |-> [categories |-> <<>>, insights |-> <<>>, summary |-> ""],
     metadata |-> [source |-> art.url, title |-> art.title,
                   raw_content |-> content, missing_categories |-> <<>>]]

NoParsed == EmptyBody("none", "none")

(***************************************************************************)
(* process_article                                                         *)
(***************************************************************************)
\* article.get("url", "") and article.get("title", "") give "" for a missing
\* key; article["url"] raises KeyError for it (has_url = FALSE)
Articles ==
    [has_url : BOOLEAN, url : {"a.com/x"}, title : {"T"},
     content : {NoneContent, Str("article", 0, FALSE), Str("article", SmallLen, FALSE),
                Str("article", SmallLen, TRUE), Str("article", BigLen, FALSE)},
     has_retries : BOOLEAN, retries_left : 0..MaxRetries,
     method : {"Requests", "Selenium"}]

WellFormedArticle(a) ==
    /\ (~a.has_url => a.url = "a.com/x")
    /\ (~a.has_retries => a.retries_left = 0)

\* article.get("retries_left", 1)
InitialRetries(a) == IF a.has_retries THEN a.retries_left ELSE 1

\* article.get("url", "")
ArticleView(a) == [url |-> IF a.has_url THEN a.url ELSE "", title |-> a.title]

FetchedContents ==
    {NoneContent, Str("selenium", 0, FALSE), Str("selenium", SmallLen, FALSE),
     Str("selenium", SmallLen, TRUE), Str("selenium", BigLen, FALSE)}

ArticleIdle ==
    /\ article = [has_url |-> TRUE, url |-> "a.com/x", title |-> "T",
                  content |-> NoneContent, has_retries |-> FALSE,
                  retries_left |-> 0, method |-> "Requests"]
    /\ retries_left = 0
    /\ full_content = NoneContent
    /\ safe_content = NoneContent
    /\ parsed_result = NoParsed
    /\ pa_pc = "idle"
    /\ llm_calls = 0
    /\ fetch_calls = 0
    /\ report = NoReport
    /\ exc = "none"

\* lines 112-113: the state on entry to the loop
ArticleInit ==
    /\ article \in {a \in Articles : WellFormedArticle(a)}
    /\ retries_left = InitialRetries(article)
    /\ full_content = article.content
    /\ safe_content = NoneContent
    /\ parsed_result = NoParsed
    /\ pa_pc = "truncate"
    /\ llm_calls = 0
    /\ fetch_calls = 0
    /\ report = NoReport
    /\ exc = "none"

Return(r) ==
    /\ report' = r
    /\ pa_pc' = "returned"

\* lines 152-161
ReturnFinal(p) ==
    /\ Return(FinalReport(p, ArticleView(article), full_content))
    /\ UNCHANGED exc

\* lines 163-179: an exception raised inside the try is caught
ReturnError(cause) ==
    /\ exc' = cause
    /\ Return(ErrorReport(cause, ArticleView(article), full_content))

\* line 116: safe_content = truncate_to_fit(full_content), outside the try
PA_Truncate ==
    /\ pa_pc = "truncate"
    /\ IF Encodable(full_content)
       THEN /\ safe_content' = truncate_to_fit(full_content)
            /\ pa_pc' = "invoke"
       ELSE /\ pa_pc' = "raised"
            /\ UNCHANGED safe_content
    /\ UNCHANGED <<article, retries_left, full_content, parsed_result,
                   llm_calls, fetch_calls, report, exc>>

\* lines 133-134 and 148-161 once the response is validated
AfterValidationAlwaysFetches(p) ==
    /\ parsed_result' = p
    /\ IF ~article.has_url
       THEN ReturnError("KeyError")
       ELSE IF p.retry
       THEN pa_pc' = "fetch" /\ UNCHANGED <<report, exc>>
       ELSE ReturnFinal(p)
AfterValidation(p) ==
    /\ parsed_result' = p                  \* line 126
    /\ IF ~article.has_url
       THEN \* article['url'] of a logging call raises KeyError inside the try
            ReturnError("KeyError")
       ELSE IF p.retry /\ retries_left > 0
       THEN pa_pc' = "fetch" /\ UNCHANGED <<report, exc>>
       ELSE ReturnFinal(p)

\* lines 118-126: the model call, extraction, repair, parse, validation
PA_InvokeRaisesAndRetries ==
    /\ pa_pc = "invoke"
    /\ llm_calls < MaxCalls
    /\ llm_calls' = llm_calls + 1
    /\ exc' = "ModelInvocationFailure"
    /\ IF retries_left > 0
       THEN pa_pc' = "truncate" /\ retries_left' = retries_left - 1
            /\ UNCHANGED report
       ELSE Return(ErrorReport("ModelInvocationFailure", ArticleView(article), full_content))
            /\ UNCHANGED retries_left
    /\ UNCHANGED <<article, full_content, safe_content,
                   parsed_result, fetch_calls>>
PA_InvokeRaises ==
    /\ pa_pc = "invoke"
    /\ llm_calls < MaxCalls
    /\ llm_calls' = llm_calls + 1
    /\ ReturnError("ModelInvocationFailure")
    /\ UNCHANGED <<article, retries_left, full_content, safe_content,
                   parsed_result, fetch_calls>>

PA_InvokeAnswers ==
    /\ pa_pc = "invoke"
    /\ llm_calls < MaxCalls
    /\ llm_calls' = llm_calls + 1
    /\ \E text \in Texts :
          LET repaired == repair_json(extract_json_block(text)) IN
          IF ~LoadsOk(repaired)
          THEN ReturnError("JSONDecodeError") /\ UNCHANGED parsed_result
          ELSE IF ~Validates(repaired)
          THEN ReturnError("ValidationError") /\ UNCHANGED parsed_result
          ELSE AfterValidation(repaired)
    /\ UNCHANGED <<article, retries_left, full_content, safe_content, fetch_calls>>

\* lines 138-147: the escalated fetch and what follows it; a non-empty
\* content replaces full_content, marks the article and costs one retry
FetchSucceedsKeepsMethod(new_content) ==
    /\ full_content' = new_content
    /\ retries_left' = retries_left - 1
    /\ pa_pc' = "truncate"
    /\ UNCHANGED <<article, report, exc>>
FetchSucceeds(new_content) ==
    /\ full_content' = new_content
    /\ article' = [article EXCEPT !.method = "Selenium"]
    /\ retries_left' = retries_left - 1
    /\ pa_pc' = "truncate"
    /\ UNCHANGED <<report, exc>>

PA_FetchRaises ==
    /\ pa_pc = "fetch"
    /\ fetch_calls' = fetch_calls + 1
    /\ ReturnError("FetchError")
    /\ UNCHANGED <<article, retries_left, full_content, safe_content,
                   parsed_result, llm_calls>>

PA_FetchReturnsMarksMethodFirst ==
    /\ pa_pc = "fetch"
    /\ fetch_calls' = fetch_calls + 1
    /\ article' = [article EXCEPT !.method = "Selenium"]
    /\ \E new_content \in FetchedContents :
          IF Truthy(new_content)
          THEN /\ full_content' = new_content
               /\ retries_left' = retries_left - 1
               /\ pa_pc' = "truncate"
               /\ UNCHANGED <<report, exc>>
          ELSE /\ ReturnFinal(parsed_result)
               /\ UNCHANGED <<retries_left, full_content>>
    /\ UNCHANGED <<safe_content, parsed_result, llm_calls>>
PA_FetchReturns ==
    /\ pa_pc = "fetch"
    /\ fetch_calls' = fetch_calls + 1
    /\ \E new_content \in FetchedContents :
          IF Truthy(new_content)
          THEN FetchSucceeds(new_content)
          ELSE /\ ReturnFinal(parsed_result)
               /\ UNCHANGED <<article, retries_left, full_content>>
    /\ UNCHANGED <<safe_content, parsed_result, llm_calls>>

ArticleNext ==
    \/ PA_Truncate
    \/ PA_InvokeRaises
    \/ PA_InvokeAnswers
    \/ PA_FetchRaises
    \/ PA_FetchReturns

(***************************************************************************)
(* truncate_to_fit, one loop iteration per step, for any prompt size and   *)
(* any budget                                                              *)
(***************************************************************************)
Alphabet == {"a", "b"}

TextsUpTo(n) == UNION {[1..k -> Alphabet] : k \in 0..n}

IsPrefix(s, t) == Len(s) <= Len(t) /\ s = SubSeq(t, 1, Len(s))

TruncIdle ==
    /\ t_orig = <<>>
    /\ t_content = <<>>
    /\ t_prompt = 0
    /\ t_budget = 1
    /\ t_total = 0
    /\ t_pc = "idle"

TruncInit ==
    /\ t_orig \in TextsUpTo(MaxTextLen)
    /\ t_content = t_orig
    /\ t_prompt \in 0..MaxPrompt
    /\ t_budget \in 1..MaxBudget
    /\ t_total = 0
    /\ t_pc = "estimate"

\* lines 93-95: the estimate of prompt and content
T_Estimate ==
    /\ t_pc = "estimate"
    /\ t_total' = total_tokens(t_prompt, Len(t_content))
    /\ t_pc' = "test"
    /\ UNCHANGED <<t_orig, t_content, t_prompt, t_budget>>

\* lines 96-97: the estimate fits, return content
T_Return ==
    /\ t_pc = "test"
    /\ WithinBudget(t_total, t_budget)
    /\ t_pc' = "returned"
    /\ UNCHANGED <<t_orig, t_content, t_prompt, t_budget, t_total>>

\* lines 98-101: over budget, warn and cut content to 90% of its length
T_Shrink ==
    /\ t_pc = "test"
    /\ ~WithinBudget(t_total, t_budget)
    /\ t_content' = SubSeq(t_content, 1, ShrinkLen(Len(t_content)))
    /\ t_pc' = "estimate"
    /\ UNCHANGED <<t_orig, t_prompt, t_budget, t_total>>

TruncNext == T_Estimate \/ T_Return \/ T_Shrink

(***************************************************************************)
(* The report archive (json_logger_service) and the vector index           *)
(***************************************************************************)
Entry(st, src, title, raw, alt) ==
    [status |-> st, source |-> src, title |-> title,
     raw_content |-> raw, content |-> alt]

\* the reports the archive may hold; raw_content and content are lengths,
\* 0 for an absent or empty field
ArchiveEntries ==
    {Entry("Accepted", "u1", "T1", 600, 0),
     Entry("Rejected", "u1", "T1", 600, 0),
     Entry("Accepted", "u1", "T1", 0, 0),
     Entry("Accepted", "u2", "T2b", 300, 600),
     Entry("Accepted", "u2", "T2", 0, 300),
     Entry("Error", "", "T0", 0, 300)}

NoArchive == [exists |-> FALSE, entries |-> <<>>]

\* vectorstore = None, line 19
NoVectorstore == [init |-> FALSE, docs |-> <<>>]

NoQuery == [kind |-> "none"]

RagInit ==
    /\ archive = NoArchive
    /\ vectorstore = NoVectorstore
    /\ idx_log = "none"
    /\ query = NoQuery

\* json_logger_service starts a new latest file with a first report
ArchiveNew ==
    /\ \E e \in ArchiveEntries : archive' = [exists |-> TRUE, entries |-> <<e>>]
    /\ idx_log' = "write"
    /\ query' = NoQuery
    /\ UNCHANGED vectorstore

\* json_logger_service appends a report to the latest file
ArchiveAppend ==
    /\ archive.exists
    /\ Len(archive.entries) < MaxEntries
    /\ \E e \in ArchiveEntries :
          archive' = [archive EXCEPT !.entries = Append(@, e)]
    /\ idx_log' = "write"
    /\ query' = NoQuery
    /\ UNCHANGED vectorstore

\* initialize_vectorstore
InitializeVectorstore ==
    /\ vectorstore' = [init |-> TRUE, docs |-> <<>>]
    /\ idx_log' = "initialize"
    /\ query' = NoQuery
    /\ UNCHANGED archive

\* metadata.get("raw_content", "") or metadata.get("content", "")
EntryContent(e) == IF e.raw_content > 0 THEN e.raw_content ELSE e.content

\* RecursiveCharacterTextSplitter(chunk_size=500, chunk_overlap=100) on a
\* text of n characters: windows of chunk_size, each starting chunk_overlap
\* before the end of the one before
RECURSIVE SplitFrom(_, _, _)
SplitFrom(e, n, lo) ==
    LET chunk(hi) == [title |-> e.title, source |-> e.source,
                      doc |-> n, lo |-> lo, hi |-> hi]
    IN  IF n - lo <= chunk_size THEN <<chunk(n)>>
        ELSE <<chunk(lo + chunk_size)>>
             \o SplitFrom(e, n, lo + chunk_size - chunk_overlap)

\* lines 54-71: the chunks of the reports that are not Rejected and have a
\* content
RECURSIVE split_documents(_)
split_documents(entries) ==
    IF entries = <<>> THEN <<>>
    ELSE LET e == Head(entries) IN
         (IF e.status # "Rejected" /\ EntryContent(e) > 0
          THEN SplitFrom(e, EntryContent(e), 0) ELSE <<>>)
         \o split_documents(Tail(entries))

\* index_articles_from_json
IndexArticles ==
    /\ idx_log' = "index"
    /\ query' = NoQuery
    /\ UNCHANGED archive
    /\ IF ~archive.exists
       THEN UNCHANGED vectorstore                      \* lines 43-46
       ELSE LET docs == split_documents(archive.entries) IN
            IF docs = <<>> THEN UNCHANGED vectorstore  \* line 70
            ELSE IF ~vectorstore.init
            THEN UNCHANGED vectorstore                 \* None.add_documents raises
            ELSE /\ Len(vectorstore.docs) + Len(docs) <= MaxChunks
                 /\ vectorstore' = [vectorstore EXCEPT !.docs = @ \o docs]

\* the sources of the archive's Rejected reports, lines 107-117
rejected_sources(a) ==
    IF ~a.exists THEN {}
    ELSE {a.entries[i].source : i \in {j \in 1..Len(a.entries) : a.entries[j].status = "Rejected"}}

\* the subsequence of s at the positions idx
RECURSIVE Pick(_, _, _)
Pick(s, idx, i) ==
    IF i > Len(s) THEN <<>>
    ELSE (IF i \in idx THEN <<s[i]>> ELSE <<>>) \o Pick(s, idx, i + 1)

\* lines 118-121
RECURSIVE FilterRejected(_, _)
FilterRejected(docs, rejected) ==
    IF docs = <<>> THEN <<>>
    ELSE (IF Head(docs).source \notin rejected THEN <<Head(docs)>> ELSE <<>>)
         \o FilterRejected(Tail(docs), rejected)

\* lines 136-143: first-seen (title, url) per url
RECURSIVE UniqueSourcesNoSeen(_, _)
UniqueSourcesNoSeen(docs, seen) ==
    IF docs = <<>> THEN <<>>
    ELSE LET d == Head(docs) IN
         IF d.source # ""
         THEN <<[title |-> d.title, url |-> d.source]>>
              \o UniqueSourcesNoSeen(Tail(docs), seen)
         ELSE UniqueSourcesNoSeen(Tail(docs), seen)
RECURSIVE UniqueSources(_, _)
UniqueSources(docs, seen) ==
    IF docs = <<>> THEN <<>>
    ELSE LET d == Head(docs) IN
         IF d.source # "" /\ d.source \notin seen
         THEN <<[title |-> d.title, url |-> d.source]>>
              \o UniqueSources(Tail(docs), seen \cup {d.source})
         ELSE UniqueSources(Tail(docs), seen)

\* lines 207-210: the header, then one "- [title](url)" line per source;
\* nothing when there is no source
SourcesFooter(unique_sources) ==
    IF unique_sources = <<>> THEN <<>>
    ELSE <<<<"---", "**Sources:**">>>>
         \o [i \in 1..Len(unique_sources) |->
                <<"- [", unique_sources[i].title, "](", unique_sources[i].url, ")">>]

\* what qa_chain.invoke puts in {context}: the documents its own retriever
\* returns for the question (lines 186-195); filtered_docs is not passed on
ChainContext(retrieved_docs, filtered_docs) == retrieved_docs

\* stream_query_articles up to the start of the worker thread, with the
\* retrieval that the worker's chain makes for the same question
Query ==
    /\ UNCHANGED <<archive, vectorstore, idx_log>>
    /\ IF ~vectorstore.init
       THEN query' = [kind |-> "raised"]            \* None.as_retriever
       ELSE \E top_k \in 1..MaxTopK :
            \E idx \in SUBSET (1..Len(vectorstore.docs)) :
               /\ Cardinality(idx) =
                    IF top_k < Len(vectorstore.docs) THEN top_k
                    ELSE Len(vectorstore.docs)
               /\ LET retrieved_docs == Pick(vectorstore.docs, idx, 1)
                      filtered_docs ==
                          FilterRejected(retrieved_docs, rejected_sources(archive))
                  IN  query' = [kind |-> "done",
                                retrieved_docs |-> retrieved_docs,
                                filtered_docs |-> filtered_docs,
                                unique_sources |-> UniqueSources(filtered_docs, {}),
                                footer |->
                                    SourcesFooter(UniqueSources(filtered_docs, {})),
                                context |-> ChainContext(retrieved_docs, filtered_docs)]

RagNext ==
    \/ ArchiveNew
    \/ ArchiveAppend
    \/ InitializeVectorstore
    \/ IndexArticles
    \/ Query

(***************************************************************************)
(* Streaming: the run_chain thread (producer) and the generator of         *)
(* stream_query_articles (consumer)                                        *)
(***************************************************************************)
StreamInit ==
    /\ queue = <<>>
    /\ done = FALSE
    /\ w_pc = "idle"
    /\ c_pc = "start"
    /\ to_produce \in 0..MaxTokens
    /\ produced = <<>>
    /\ yielded = <<>>

\* on_llm_new_token: self.queue.put(token); queue.Queue() has no maxsize
W_TokenDropsWhenFull ==
    /\ w_pc = "running"
    /\ to_produce > 0
    /\ queue' = IF Len(queue) < 2 THEN Append(queue, Len(produced) + 1) ELSE queue
    /\ produced' = Append(produced, Len(produced) + 1)
    /\ to_produce' = to_produce - 1
    /\ UNCHANGED <<done, w_pc, c_pc, yielded>>
W_Token ==
    /\ w_pc = "running"
    /\ to_produce > 0
    /\ queue' = Append(queue, Len(produced) + 1)
    /\ produced' = Append(produced, Len(produced) + 1)
    /\ to_produce' = to_produce - 1
    /\ UNCHANGED <<done, w_pc, c_pc, yielded>>

\* on_llm_end: self.done.set(), once the model has emitted its last token
W_LlmEndWaitsForDrain ==
    /\ w_pc = "running"
    /\ to_produce = 0
    /\ queue = <<>>
    /\ done' = TRUE
    /\ w_pc' = "llm_ended"
    /\ UNCHANGED <<queue, c_pc, to_produce, produced, yielded>>
W_LlmEnd ==
    /\ w_pc = "running"
    /\ to_produce = 0
    /\ done' = TRUE
    /\ w_pc' = "llm_ended"
    /\ UNCHANGED <<queue, c_pc, to_produce, produced, yielded>>

\* qa_chain.invoke raises (retrieval, or the model call part-way): the
\* thread ends without reaching line 196
W_Fail ==
    /\ w_pc \in {"running", "llm_ended"}
    /\ w_pc' = "failed"
    /\ UNCHANGED <<queue, done, c_pc, to_produce, produced, yielded>>

\* line 196: handler.done.set() after qa_chain.invoke returned
W_Done ==
    /\ w_pc = "llm_ended"
    /\ done' = TRUE
    /\ w_pc' = "finished"
    /\ UNCHANGED <<queue, c_pc, to_produce, produced, yielded>>

WorkerNext == W_Token \/ W_LlmEnd \/ W_Fail \/ W_Done

\* lines 198-201: thread.start(), then the first test of the while loop
C_Start ==
    /\ c_pc = "start"
    /\ w_pc' = "running"
    /\ c_pc' = "test_done"
    /\ UNCHANGED <<queue, done, to_produce, produced, yielded>>

\* line 89, left operand: not self.done.is_set()
C_TestDone ==
    /\ c_pc = "test_done"
    /\ c_pc' = IF ~done THEN "get" ELSE "test_empty"
    /\ UNCHANGED <<queue, done, w_pc, to_produce, produced, yielded>>

\* line 89, right operand, evaluated when done is set: not self.queue.empty()
AfterDoneNoDrain(q) == "join"
AfterDone(q) == IF q # <<>> THEN "get" ELSE "join"

C_TestEmpty ==
    /\ c_pc = "test_empty"
    /\ c_pc' = AfterDone(queue)
    /\ UNCHANGED <<queue, done, w_pc, to_produce, produced, yielded>>

\* lines 91-92: a token is there within the timeout; yield it
C_Get ==
    /\ c_pc = "get"
    /\ queue # <<>>
    /\ yielded' = Append(yielded, Head(queue))
    /\ queue' = Tail(queue)
    /\ c_pc' = "test_done"
    /\ UNCHANGED <<done, w_pc, to_produce, produced>>

\* lines 93-94: queue.Empty after the timeout; continue
C_Timeout ==
    /\ c_pc = "get"
    /\ queue = <<>>
    /\ c_pc' = "test_done"
    /\ UNCHANGED <<queue, done, w_pc, to_produce, produced, yielded>>

\* line 204: thread.join() returns once the thread has ended
C_Join ==
    /\ c_pc = "join"
    /\ w_pc \in {"finished", "failed"}
    /\ c_pc' = "footer"
    /\ UNCHANGED <<queue, done, w_pc, to_produce, produced, yielded>>

\* lines 207-210: the sources footer, then the generator is exhausted
C_Footer ==
    /\ c_pc = "footer"
    /\ c_pc' = "closed"
    /\ UNCHANGED <<queue, done, w_pc, to_produce, produced, yielded>>

ConsumerNext ==
    C_Start \/ C_TestDone \/ C_TestEmpty \/ C_Get \/ C_Timeout \/ C_Join \/ C_Footer

StreamNext == WorkerNext \/ ConsumerNext

(***************************************************************************)
(* validate_article_url                                                    *)
(***************************************************************************)
\* the JSON bodies of the validator's answers: is_article is true, false,
\* another JSON value ("null", "text") or absent; "list" is a JSON value
\* that is not an object
UrlBody(syntax, shape, is_article, has_reason) ==
    [syntax |-> syntax, shape |-> shape, is_article |-> is_article,
     has_reason |-> has_reason]

UrlBodies ==
    {UrlBody(sx, "dict", ia, hr) :
        sx \in {"valid", "repairable"},
        ia \in {"true", "false", "null", "text", "absent"},
        hr \in BOOLEAN}
    \cup {UrlBody("none", "none", "absent", FALSE),
          UrlBody("valid", "list", "absent", FALSE)}

UrlTexts == [lead : {"ws", "prose"}, fenced : BOOLEAN, body : UrlBodies]

NoText == [lead |-> "", fenced |-> FALSE, body |-> UrlBody("none", "none", "absent", FALSE)]

NoResult == [is_article |-> "none", reason |-> <<>>]

UrlIdle ==
    /\ u_url = "none"
    /\ u_text = NoText
    /\ u_pc = "idle"
    /\ u_result = NoResult

UrlInit ==
    /\ u_url \in {"example.com/news/", "example.com/news/2024/06/22/story"}
    /\ u_text = NoText
    /\ u_pc = "call"
    /\ u_result = NoResult

\* lines 219-221: the except clause
AcceptByDefault(cause) ==
    [is_article |-> "true",
     reason |-> <<"Validation failed, defaulting to accept", cause>>]

\* line 213 raises
U_InvokeRaises ==
    /\ u_pc = "call"
    /\ u_result' = AcceptByDefault("ModelInvocationFailure")
    /\ u_pc' = "returned"
    /\ UNCHANGED <<u_url, u_text>>

\* line 213 returns a text
U_InvokeAnswers ==
    /\ u_pc = "call"
    /\ u_text' \in UrlTexts
    /\ u_pc' = "answered"
    /\ UNCHANGED <<u_url, u_result>>

\* parsed_dict.get("is_article", False)
GetIsArticle(parsed) ==
    IF parsed.is_article = "absent" THEN "false" ELSE parsed.is_article

\* parsed_dict.get("reason", "No reason provided")
GetReason(parsed) ==
    IF parsed.has_reason THEN <<"model">> ELSE <<"No reason provided">>

\* lines 214-221
U_Interpret ==
    /\ u_pc = "answered"
    /\ LET repaired == repair_json(extract_json_block(u_text)) IN
       u_result' =
          IF ~LoadsOk(repaired) THEN AcceptByDefault("JSONDecodeError")
          ELSE IF repaired.shape # "dict"
          THEN AcceptByDefault("AttributeError")   \* a list has no .get
          ELSE [is_article |-> GetIsArticle(repaired),
                reason |-> GetReason(repaired)]
    /\ u_pc' = "returned"
    /\ UNCHANGED <<u_url, u_text>>

UrlNext == U_InvokeRaises \/ U_InvokeAnswers \/ U_Interpret

(***************************************************************************)
(* Specifications                                                          *)
(***************************************************************************)
RagIdle == RagInit

StreamIdle ==
    /\ queue = <<>>
    /\ done = FALSE
    /\ w_pc = "idle"
    /\ c_pc = "idle"
    /\ to_produce = 0
    /\ produced = <<>>
    /\ yielded = <<>>

InitArticle == ArticleInit /\ TruncIdle /\ RagIdle /\ StreamIdle /\ UrlIdle
NextArticle == ArticleNext /\ UNCHANGED <<truncVars, ragVars, streamVars, urlVars>>
SpecArticle == InitArticle /\ [][NextArticle]_vars

InitTrunc == ArticleIdle /\ TruncInit /\ RagIdle /\ StreamIdle /\ UrlIdle
NextTrunc == TruncNext /\ UNCHANGED <<articleVars, ragVars, streamVars, urlVars>>
SpecTrunc == InitTrunc /\ [][NextTrunc]_vars
\* the loop is a sequential program: it keeps taking its next step
SpecTruncFair == SpecTrunc /\ WF_vars(NextTrunc)

InitRag == ArticleIdle /\ TruncIdle /\ RagInit /\ StreamIdle /\ UrlIdle
NextRag == RagNext /\ UNCHANGED <<articleVars, truncVars, streamVars, urlVars>>
SpecRag == InitRag /\ [][NextRag]_vars

InitStream == ArticleIdle /\ TruncIdle /\ RagIdle /\ StreamInit /\ UrlIdle
NextStream == StreamNext /\ UNCHANGED <<articleVars, truncVars, ragVars, urlVars>>
SpecStream == InitStream /\ [][NextStream]_vars
\* the worker thread and the pulling consumer are both scheduled
SpecStreamFair ==
    /\ SpecStream
    /\ WF_vars(WorkerNext /\ UNCHANGED <<articleVars, truncVars, ragVars, urlVars>>)
    /\ WF_vars(ConsumerNext /\ UNCHANGED <<articleVars, truncVars, ragVars, urlVars>>)
\* the worker thread is scheduled: a step of run_chain that can be taken is
\* taken; an exception of the chain is possible and never forced, and the
\* consumer may stop pulling at any point
SpecStreamWorkerFair ==
    /\ SpecStream
    /\ WF_vars(/\ W_Token \/ W_LlmEnd \/ W_Done
               /\ UNCHANGED <<articleVars, truncVars, ragVars, urlVars>>)

InitUrl == ArticleIdle /\ TruncIdle /\ RagIdle /\ StreamIdle /\ UrlInit
NextUrl == UrlNext /\ UNCHANGED <<articleVars, truncVars, ragVars, streamVars>>
SpecUrl == InitUrl /\ [][NextUrl]_vars

(***************************************************************************)
(* Properties of process_article                                           *)
(***************************************************************************)
Returned == pa_pc = "returned"

\* C1: one run of process_article calls the classification model at most
\* retries_left + 1 times, retries_left being the article's initial value
\* (1 when the key is absent).
C1_RetryBound == llm_calls <= InitialRetries(article) + 1

\* a run that used every retry: the bound is met with equality
C1_Witness ==
    /\ Returned
    /\ InitialRetries(article) >= 1
    /\ llm_calls = InitialRetries(article) + 1

WellFormedReport(r) ==
    /\ r.kind = "report"
    /\ DOMAIN r = {"kind", "logging", "response", "metadata"}

\* C2: process_article never raises to its caller; whatever step of an
\* attempt fails, the call returns a report with logging, response and
\* metadata sections.
C2_NeverRaises ==
    /\ pa_pc # "raised"
    /\ (Returned => WellFormedReport(report))

\* C3: a returned report whose status is not Accepted has empty categories,
\* insights and summary.
C3_NonAcceptedIsEmpty ==
    (Returned /\ report.logging.status # "Accepted") =>
        /\ report.response.categories = <<>>
        /\ report.response.insights = <<>>
        /\ report.response.summary = ""

\* C4: the status of a returned report is Accepted, Rejected or Error.
C4_StatusEnum ==
    Returned => report.logging.status \in {"Accepted", "Rejected", "Error"}

\* C5: the categories of a returned report all belong to the category index.
C5_CategoriesInIndex ==
    Returned =>
        \A i \in 1..Len(report.response.categories) :
            report.response.categories[i] \in CATEGORIES_INDEX

\* a run of two model calls with one escalated fetch between them, whose
\* content replaced the article's, and whose second response was validated
\* as Accepted without a retry request (the first one asked for the retry)
EscalatedThenAccepted ==
    /\ Returned
    /\ InitialRetries(article) >= 1
    /\ llm_calls = 2
    /\ fetch_calls = 1
    /\ full_content.origin = "selenium"
    /\ parsed_result.status = "Accepted"
    /\ ~parsed_result.retry

\* C12, as stated: after a retry request, a successful escalated fetch and
\* an Accepted second response, the report has status Accepted and its
\* metadata.method reflects the escalation.
C12_Original ==
    EscalatedThenAccepted =>
        /\ report.logging.status = "Accepted"
        /\ "method" \in DOMAIN report.metadata
        /\ report.metadata.method = "Selenium"

\* C12, amended: in that case the report has status Accepted and the
\* article's method field is the escalated label; the report's metadata
\* has no method field.
C12_EscalatedAccepted ==
    EscalatedThenAccepted =>
        /\ report.logging.status = "Accepted"
        /\ article.method = "Selenium"
        /\ "method" \notin DOMAIN report.metadata

C12_Witness == EscalatedThenAccepted

EmptyErrorReport(r, cause) ==
    /\ r.kind = "report"
    /\ r.logging = [status |-> "Error", reason |-> cause, retry |-> FALSE,
                    missing_categories |-> <<>>]
    /\ r.response = [categories |-> <<>>, insights |-> <<>>, summary |-> ""]

\* C13: once the model call, the recovery or validation of its output, or
\* the escalated fetch has raised, process_article has returned an Error
\* report with retry false, empty categories, insights, summary and
\* missing_categories and the cause as reason, and it makes no further
\* model call or fetch.
C13_ErrorIsTerminal ==
    /\ [](exc # "none" => Returned /\ EmptyErrorReport(report, exc))
    /\ [][exc # "none" =>
            llm_calls' = llm_calls /\ fetch_calls' = fetch_calls]_vars

\* a failure on a later attempt: the model call after an escalation raised
C13_Witness ==
    /\ Returned
    /\ exc = "ModelInvocationFailure"
    /\ llm_calls = 2
    /\ fetch_calls = 1

\* the escalations that succeeded during the run
Escalations == InitialRetries(article) - retries_left

\* the run ended on a validated response that asked for a retry, with no
\* retry left or after an escalated fetch that returned no content: no
\* model call, recovery step or fetch raised
EndedOnRetryRequest ==
    /\ Returned
    /\ parsed_result.shape = "report"
    /\ parsed_result.retry
    /\ exc \notin {"ModelInvocationFailure", "JSONDecodeError",
                   "ValidationError", "FetchError"}
    /\ (retries_left = 0 \/ fetch_calls > Escalations)

\* C14: when the validated response asks for a retry and there is no retry
\* left or the escalated fetch returns no content, the run ends there with
\* a report whose logging and response sections are the model's, retry =
\* true included, and with no retry left no fetch is attempted.
C14_RetryRequestIsFinal ==
    EndedOnRetryRequest =>
        /\ report.logging = model_dump_logging(parsed_result)
        /\ report.response = model_dump_response(parsed_result)
        /\ report.logging.retry
        /\ (retries_left = 0 => fetch_calls = Escalations)

\* C19, as stated: after any run article.method is the escalated label
\* exactly when at least one escalation succeeded during that run.
C19_Original ==
    Returned => (article.method = "Selenium" <=> Escalations >= 1)

\* C19, amended: the run writes to the caller's article only on a successful
\* escalation and then only the method field, set to the escalated label;
\* so after a successful escalation the method is the escalated label,
\* without one it is what the caller passed in, and the content and
\* retries_left fields keep the caller's values while the replaced content
\* and the decremented counter live in the run's locals.
C19_OnlyMethodWritten ==
    /\ [][article' # article =>
            /\ pa_pc = "fetch"
            /\ article' = [article EXCEPT !.method = "Selenium"]
            /\ Truthy(full_content')
            /\ retries_left' = retries_left - 1]_vars
    /\ [](Escalations >= 1 =>
            /\ article.method = "Selenium"
            /\ full_content # article.content
            /\ retries_left < InitialRetries(article))

\* a run that escalated twice returned: the caller's article still carries
\* its own content and counter, and the escalated label
C19_Witness ==
    /\ Returned
    /\ Escalations = 2
    /\ article.method = "Selenium"
    /\ article.retries_left = 2
    /\ article.content = Str("article", SmallLen, FALSE)
    /\ full_content.origin = "selenium"
    /\ retries_left = 0

\* C20: in every returned report, Error reports included,
\* metadata.raw_content is the full content of the attempt that produced the
\* report, not its truncation: the article's own content if no escalation
\* succeeded, otherwise the non-empty content of the latest successful
\* escalated fetch; and metadata.missing_categories equals
\* logging.missing_categories.
C20_RawContentIsFull ==
    Returned =>
        /\ report.metadata.raw_content = full_content
        /\ (Escalations = 0 => report.metadata.raw_content = article.content)
        /\ (Escalations >= 1 =>
               /\ report.metadata.raw_content \in FetchedContents
               /\ Truthy(report.metadata.raw_content))
        /\ (safe_content # NoneContent =>
               /\ safe_content = truncate_to_fit(report.metadata.raw_content)
               /\ safe_content.len <= report.metadata.raw_content.len)
        /\ report.metadata.missing_categories = report.logging.missing_categories

\* a report on an escalated content too long for the prompt: the model saw
\* a truncation, the report carries the whole
C20_Witness ==
    /\ Returned
    /\ Escalations >= 1
    /\ report.metadata.raw_content = Str("selenium", BigLen, FALSE)
    /\ safe_content.len < BigLen
    /\ report.logging.status \in {"Accepted", "Error"}

(***************************************************************************)
(* Properties of truncate_to_fit                                           *)
(***************************************************************************)
TruncPost ==
    /\ IsPrefix(t_content, t_orig)
    /\ Fits(t_prompt, Len(t_content), t_budget)
    /\ (Fits(t_prompt, Len(t_orig), t_budget) => t_content = t_orig)

C6_NoRejectedContext ==
    query.kind = "done" =>
        \A i \in 1..Len(query.context) :
            query.context[i].source \notin rejected_sources(archive)

\* C7: a run of index_articles_from_json that directly follows another
\* one, the archive unchanged, leaves the vector index as the first run
\* left it.
C7_ReindexIdempotent ==
    [][(idx_log = "index" /\ idx_log' = "index") => vectorstore' = vectorstore]_vars

\* the (title, source) pairs of docs, each once, in first-seen order
RECURSIVE DistinctPairs(_, _)
DistinctPairs(docs, seen) ==
    IF docs = <<>> THEN <<>>
    ELSE LET pair == <<Head(docs).title, Head(docs).source>> IN
         IF pair \in seen THEN DistinctPairs(Tail(docs), seen)
         ELSE <<pair>> \o DistinctPairs(Tail(docs), seen \cup {pair})

\* the (title, url) pairs of the lines of a footer, header left out
FooterPairs(footer) ==
    [i \in 1..(Len(footer) - 1) |-> <<footer[i + 1][2], footer[i + 1][4]>>]

\* C15, as stated: the footer lists the distinct (title, source) pairs of
\* the chunks that survived the filter, each once, in first-seen order,
\* and no Rejected source.
C15_Original ==
    query.kind = "done" =>
        /\ FooterPairs(query.footer) = DistinctPairs(query.filtered_docs, {})
        /\ \A i \in 1..Len(FooterPairs(query.footer)) :
              FooterPairs(query.footer)[i][2] \notin rejected_sources(archive)

\* the position of the first chunk of docs whose source is url
FirstOf(docs, url) ==
    CHOOSE i \in 1..Len(docs) :
        /\ docs[i].source = url
        /\ \A j \in 1..(i - 1) : docs[j].source # url

\* C15, amended: the footer has one line per distinct non-empty source of
\* the chunks that survived the filter, with the title of the first such
\* chunk, in first-seen order of the sources; it lists no Rejected source,
\* and it is absent when there is no such source.
C15_FooterPerSource ==
    query.kind = "done" =>
        LET docs == query.filtered_docs
            lines == FooterPairs(query.footer)
            urls == {docs[i].source : i \in 1..Len(docs)} \ {""}
        IN  /\ (query.footer # <<>> => query.footer[1] = <<"---", "**Sources:**">>)
            /\ (query.footer = <<>> <=> urls = {})
            /\ \A u \in urls :
                  Cardinality({i \in 1..Len(lines) : lines[i][2] = u}) = 1
            /\ \A i \in 1..Len(lines) :
                  /\ lines[i][2] \in urls
                  /\ lines[i][2] \notin rejected_sources(archive)
                  /\ lines[i][1] = docs[FirstOf(docs, lines[i][2])].title
                  /\ \A j \in (i + 1)..Len(lines) :
                        FirstOf(docs, lines[i][2]) < FirstOf(docs, lines[j][2])

\* two surviving chunks of one source give one footer line
C15_Witness ==
    /\ query.kind = "done"
    /\ Len(query.filtered_docs) = 2
    /\ Len(query.footer) = 2

\* the reports of the latest archive that are to be indexed: not Rejected,
\* with a raw_content or, failing that, a content
EligibleReports ==
    IF ~archive.exists THEN {}
    ELSE {i \in 1..Len(archive.entries) :
             /\ archive.entries[i].status # "Rejected"
             /\ archive.entries[i].raw_content > 0 \/ archive.entries[i].content > 0}

\* the chunks a step appended to the vector index
InsertedChunks ==
    {vectorstore'.docs[i] : i \in (Len(vectorstore.docs) + 1)..Len(vectorstore'.docs)}

\* C18: one run of index_articles_from_json inserts chunks for exactly the
\* reports of the latest archive that are not Rejected and have a content
\* (raw_content, else content), nothing for the others, and nothing when
\* there is no archive.
C18_IndexesEligible ==
    [][IndexArticles =>
         {<<c.title, c.source, c.doc>> : c \in InsertedChunks}
         = {<<archive.entries[i].title, archive.entries[i].source,
              IF archive.entries[i].raw_content > 0
              THEN archive.entries[i].raw_content
              ELSE archive.entries[i].content>> : i \in EligibleReports}]_vars

(***************************************************************************)
(* Properties of streaming                                                 *)
(***************************************************************************)
StreamOver == c_pc \in {"join", "footer", "closed"}

\* C9: under every interleaving the generator yields the pushed tokens once
\* each and in push order, and its loop ends only when the completion flag
\* is set and the queue is empty, every pushed token yielded.
C9_TokensInOrder ==
    /\ produced = yielded \o queue
    /\ (StreamOver => done /\ queue = <<>> /\ yielded = produced)

\* a stream that ended after yielding several tokens
C9_Witness ==
    /\ c_pc = "closed"
    /\ Len(produced) >= 2
    /\ yielded = produced

\* C10: a consumer that keeps pulling reaches the end of the generator,
\* whether the worker's chain ends normally or fails part-way.
C10_StreamEnds == <>(c_pc = "closed")

C17_WorkerRunsToCompletion ==
    /\ [](w_pc = "running" /\ to_produce > 0 => ENABLED W_Token)
    /\ [](w_pc = "running" /\ to_produce = 0 => ENABLED W_LlmEnd)
    /\ [](w_pc = "llm_ended" => ENABLED W_Done)
    /\ (w_pc = "running" ~> w_pc \in {"finished", "failed"})
    /\ [](w_pc = "finished" => to_produce = 0 /\ done)

\* the worker finished although the consumer never pulled a token
C17_Witness ==
    /\ w_pc = "finished"
    /\ done
    /\ Len(produced) = MaxTokens
    /\ yielded = <<>>
    /\ c_pc \in {"test_done", "get"}

(***************************************************************************)
(* Properties of validate_article_url                                      *)
(***************************************************************************)
\* the answer parses to an object whose is_article is the JSON value false
ExplicitlyFalse(text) ==
    LET repaired == repair_json(extract_json_block(text)) IN
    LoadsOk(repaired) /\ repaired.shape = "dict" /\ repaired.is_article = "false"

\* C11: validate_article_url never raises, and it returns a first component
\* other than true only when the parsed answer says is_article is false;
\* on a model error, an unparsable answer or an answer without a usable
\* verdict it returns true.
C11_FailOpen ==
    (u_pc = "returned" /\ u_result.is_article # "true") => ExplicitlyFalse(u_text)

====
